---------------------------- MODULE Spec2Model ----------------------------
(***************************************************************************)
(* A model of trappy/utils.py: handle_duplicate_index and                  *)
(* squash_into_window, each applied to a time-indexed series.              *)
(*                                                                         *)
(* A series is a record [index, values] of two sequences of equal length.  *)
(* Timestamps are exact numbers on a grid: one unit is 1/Scale of the      *)
(* distance between two neighbouring input timestamps, and Scale is the    *)
(* least common multiple of every possible group size, so that the         *)
(* division of handle_duplicate_index is exact.  Floating-point rounding   *)
(* is not modelled.  Positions are 0-based as in the source; a sequence s  *)
(* is read at position p as s[p + 1].                                      *)
(***************************************************************************)
EXTENDS Integers, Sequences, FiniteSets, TLC

\* ------------------------------------------------------------- bounds

\* Longest sorted series handed to handle_duplicate_index.
MaxLen == 6
\* Longest series handed to squash_into_window.
MaxWinLen == 4
\* Longest series of arbitrary (possibly unsorted) timestamps.
MaxAnyLen == 3
\* Input timestamps are 0, Scale, ..., MaxTime * Scale.
MaxTime == 2

RECURSIVE Gcd(_, _)
Gcd(a, b) == IF b = 0 THEN a ELSE Gcd(b, a % b)

RECURSIVE LcmUpTo(_)
LcmUpTo(n) == IF n <= 1 THEN 1 ELSE (LcmUpTo(n - 1) * n) \div Gcd(LcmUpTo(n - 1), n)

Max(a, b) == IF a >= b THEN a ELSE b

\* Units per timestamp step: every group size 2..MaxLen divides it.
Scale == LcmUpTo(Max(MaxLen, 4))

\* The default of the max_delta parameter (0.000001), taken as one unit.
DefaultMaxDelta == 1

Times == {k * Scale : k \in 0..MaxTime}
Values == {5, 6}
\* max_delta: invalid (negative, zero), the default, a quarter step, a step.
Deltas == {0 - DefaultMaxDelta, 0, DefaultMaxDelta, Scale \div 4, Scale}
\* Window bounds lie on the timestamps and half-way between them.
WindowTimes == {(h * Scale) \div 2 : h \in 0..(2 * MaxTime)}
NoWindow == <<0, 0>>

\* ------------------------------------------------------------- series

IsSorted(idx) == \A i \in 1..(Len(idx) - 1) : idx[i] <= idx[i + 1]

SeqsUpTo(S, n) == UNION {[1..k -> S] : k \in 0..n}

SeriesOver(idxs) ==
    UNION {{[index |-> idx, values |-> vals] : vals \in [1..Len(idx) -> Values]}
           : idx \in idxs}

SortedSeries(n) == SeriesOver({idx \in SeqsUpTo(Times, n) : IsSorted(idx)})
AnySeries(n) == SeriesOver(SeqsUpTo(Times, n))

EmptySeries == [index |-> <<>>, values |-> <<>>]

\* pd.concat of two series: the rows of a followed by the rows of b.
Concat(a, b) == [index |-> a.index \o b.index, values |-> a.values \o b.values]

\* df[mask]: the rows from row i on at which the boolean array mask is
\* true, in their order.
RECURSIVE Mask(_, _, _)
Mask(df, mask, i) ==
    IF i > Len(df.index) THEN EmptySeries
    ELSE LET rest == Mask(df, mask, i + 1)
         IN  IF mask[i]
             THEN Concat([index |-> <<df.index[i]>>, values |-> <<df.values[i]>>], rest)
             ELSE rest

\* Mutant of ILocLast: df.iloc[:1], the first row instead of the last.
ILocFirst(df) ==
    IF Len(df.index) = 0 THEN EmptySeries
    ELSE [index |-> <<df.index[1]>>, values |-> <<df.values[1]>>]

\* df.iloc[-1:]: the last row, or nothing when df is empty.
ILocLast(df) ==
    IF Len(df.index) = 0 THEN EmptySeries
    ELSE [index |-> <<df.index[Len(df.index)]>>, values |-> <<df.values[Len(df.index)]>>]

\* Mutant of Relabel: the boundary row keeps its own timestamp.
RelabelForgotten(df, t) == df

\* df.index = [t] when df is not empty.
Relabel(df, t) ==
    IF Len(df.index) = 0 THEN df ELSE [index |-> <<t>>, values |-> df.values]

\* ----------------------------------------------- handle_duplicate_index

\* The smallest element of a non-empty set of numbers.
MinOf(S) == CHOOSE x \in S : \A y \in S : x <= y

RECURSIVE SortedList(_)
SortedList(S) == IF S = {} THEN <<>> ELSE <<MinOf(S)>> \o SortedList(S \ {MinOf(S)})

\* index.get_duplicates(): the values occurring more than once, ascending.
get_duplicates(idx) ==
    SortedList({idx[i] : i \in {j \in DOMAIN idx : \E k \in DOMAIN idx : k /= j /\ idx[k] = idx[j]}})

\* numpy's binary search over a[lo..hi) (0-based), whatever the order of a.
RECURSIVE BinSearch(_, _, _, _, _)
BinSearch(a, key, side, lo, hi) ==
    IF lo >= hi THEN lo
    ELSE LET mid == lo + ((hi - lo) \div 2)
             goRight == IF side = "left" THEN a[mid + 1] < key ELSE a[mid + 1] <= key
         IN  IF goRight THEN BinSearch(a, key, side, mid + 1, hi)
             ELSE BinSearch(a, key, side, lo, mid)

searchsorted(a, key, side) == BinSearch(a, key, side, 0, Len(a))

\* Mutant of AddDeltas: the increments accumulate, each one twice the last.
RECURSIVE AddDeltasCumulative(_, _, _, _)
AddDeltasCumulative(a, left, right, delta) ==
    IF left > right THEN a
    ELSE AddDeltasCumulative([a EXCEPT ![left + 1] = @ + delta],
                             left + 1, right, delta + delta + delta)

\* The while loop of lines 101-104: add delta, double it, move right.
RECURSIVE AddDeltas(_, _, _, _)
AddDeltas(a, left, right, delta) ==
    IF left > right THEN a
    ELSE AddDeltas([a EXCEPT ![left + 1] = @ + delta], left + 1, right, delta + delta)

\* The step computed for one duplicated value on the index as it stands.
\* With num_dups = 0 the quotient is an infinity or a NaN that the loop,
\* which then runs zero times, never reads; max_delta stands in for it.
GroupDelta(a, dup, max_delta) ==
    LET dup_index_left == searchsorted(a, dup, "left")
        dup_index_right == searchsorted(a, dup, "right") - 1
        num_dups == dup_index_right - dup_index_left + 1
        delta == IF dup_index_right + 1 < Len(a)
                 THEN (IF num_dups = 0 THEN max_delta
                       ELSE (a[dup_index_right + 2] - dup) \div num_dups)
                 ELSE max_delta
    IN  IF delta > max_delta THEN max_delta ELSE delta

\* One pass of the for loop over dups.
AdjustGroup(a, dup, max_delta) ==
    LET dup_index_left == searchsorted(a, dup, "left")
        dup_index_right == searchsorted(a, dup, "right") - 1
    IN  AddDeltas(a, dup_index_left + 1, dup_index_right, GroupDelta(a, dup, max_delta))

RECURSIVE AdjustAll(_, _, _, _)
AdjustAll(a, dups, k, max_delta) ==
    IF k > Len(dups) THEN a
    ELSE AdjustAll(AdjustGroup(a, dups[k], max_delta), dups, k + 1, max_delta)

\* new_index after the loop.  dups is taken from the index before the loop.
NewIndex(idx, max_delta) == AdjustAll(idx, get_duplicates(idx), 1, max_delta)

\* Mutant of IndexAfterCall: new_index is a copy, the index keeps its values.
IndexUntouched(idx, max_delta) == idx

\* new_index = index.values is a view of the index's own array, so the loop
\* writes into the index of the series the caller passed.
IndexAfterCall(idx, max_delta) == NewIndex(idx, max_delta)

IsUnique(idx) == \A i, j \in DOMAIN idx : idx[i] = idx[j] => i = j

\* data.reindex(target): a copy when the index already equals target, a
\* lookup by label on a unique index, ValueError on a duplicate one.
Reindex(series, target) ==
    IF series.index = target
    THEN [raised |-> FALSE, series |-> [index |-> target, values |-> series.values]]
    ELSE IF IsUnique(series.index)
    THEN [raised |-> FALSE,
          series |-> [index |-> target,
                      values |-> [i \in DOMAIN target |->
                          IF \E j \in DOMAIN series.index : series.index[j] = target[i]
                          THEN series.values[CHOOSE j \in DOMAIN series.index :
                                                 series.index[j] = target[i]]
                          ELSE "NaN"]]]
    ELSE [raised |-> TRUE, series |-> EmptySeries]

\* --------------------------------------------------- squash_into_window

squash_into_window(df, win) ==
    LET start_time == win[1]
        end_time == win[2]
        in_window == [i \in DOMAIN df.index |->
                         df.index[i] >= start_time /\ df.index[i] < end_time]
        before_start == [i \in DOMAIN df.index |-> df.index[i] < start_time]
        window_df == Mask(df, in_window, 1)
        first_event_df == Relabel(ILocLast(Mask(df, before_start, 1)), start_time)
        df2 == Concat(first_event_df, window_df)
        up_to_end == [i \in DOMAIN df2.index |-> df2.index[i] <= end_time]
        last_event_df == Relabel(ILocLast(Mask(df2, up_to_end, 1)), end_time)
    IN  Concat(df2, last_event_df)

\* -------------------------------------------------------- state machine

VARIABLES
    pc,         \* "call" before the function runs, "return" after it
    op,         \* the function called
    data,       \* the series object the caller holds
    input,      \* the series as it was when the call was made
    max_delta,  \* argument of handle_duplicate_index
    window,     \* argument of squash_into_window
    result,     \* the series returned
    raised      \* whether the call ended with an exception

vars == <<pc, op, data, input, max_delta, window, result, raised>>

Init ==
    /\ pc = "call"
    /\ result = EmptySeries
    /\ raised = FALSE
    /\ \/ /\ op = "handle_duplicate_index"
          /\ data \in SortedSeries(MaxLen) \cup AnySeries(MaxAnyLen)
          /\ max_delta \in Deltas
          /\ window = NoWindow
       \/ /\ op = "squash_into_window"
          /\ data \in SortedSeries(MaxWinLen) \cup AnySeries(MaxAnyLen)
          /\ window \in WindowTimes \X WindowTimes
          /\ max_delta = DefaultMaxDelta
    /\ input = data

HandleDuplicateIndex ==
    /\ pc = "call"
    /\ op = "handle_duplicate_index"
    /\ LET new_index == NewIndex(data.index, max_delta)
           mutated == [data EXCEPT !.index = IndexAfterCall(data.index, max_delta)]
           re == Reindex(mutated, new_index)
       IN  /\ data' = mutated
           /\ result' = re.series
           /\ raised' = re.raised
    /\ pc' = "return"
    /\ UNCHANGED <<op, input, max_delta, window>>

SquashIntoWindow ==
    /\ pc = "call"
    /\ op = "squash_into_window"
    /\ result' = squash_into_window(data, window)
    /\ raised' = FALSE
    /\ pc' = "return"
    /\ UNCHANGED <<op, data, input, max_delta, window>>

Next == HandleDuplicateIndex \/ SquashIntoWindow

Spec == Init /\ [][Next]_vars


\* ------------------------------------------------------ model soundness

\* The division of line 89 leaves no remainder for the duplicated value dup
\* on the index a (or is the unread division by num_dups = 0).
QuotientExact(a, dup) ==
    LET dup_index_left == searchsorted(a, dup, "left")
        dup_index_right == searchsorted(a, dup, "right") - 1
        num_dups == dup_index_right - dup_index_left + 1
    IN  (dup_index_right + 1 < Len(a) /\ num_dups /= 0) =>
            (a[dup_index_right + 2] - dup) % num_dups = 0

RECURSIVE AllQuotientsExact(_, _, _, _)
AllQuotientsExact(a, dups, k, md) ==
    \/ k > Len(dups)
    \/ /\ QuotientExact(a, dups[k])
       /\ AllQuotientsExact(AdjustGroup(a, dups[k], md), dups, k + 1, md)

\* Every division the model performs is exact: the integer grid loses
\* nothing against exact arithmetic.
GridIsExact ==
    op = "handle_duplicate_index" =>
        AllQuotientsExact(input.index, get_duplicates(input.index), 1, max_delta)

\* ---------------------------------------------------------- vocabulary
\* What the statements below speak of, defined on the input series alone.

Returned(f) == pc = "return" /\ op = f

start == window[1]
stop == window[2]

\* A call of handle_duplicate_index that meets its input constraint.
ValidResolve ==
    Returned("handle_duplicate_index") /\ IsSorted(input.index) /\ max_delta > 0

\* A call of squash_into_window that meets its input constraint.
ValidSquash ==
    Returned("squash_into_window") /\ IsSorted(input.index) /\ start <= stop

Min(a, b) == IF a <= b THEN a ELSE b

RECURSIVE Pow2(_)
Pow2(k) == IF k <= 0 THEN 1 ELSE 2 * Pow2(k - 1)

\* The duplicate group of position i in a sorted index: its size, its
\* first and last position.
GroupSize(idx, i) == Cardinality({j \in DOMAIN idx : idx[j] = idx[i]})
GroupFirst(idx, i) == CHOOSE j \in DOMAIN idx :
                          idx[j] = idx[i] /\ \A k \in DOMAIN idx : idx[k] = idx[i] => j <= k
GroupLast(idx, i) == GroupFirst(idx, i) + GroupSize(idx, i) - 1
IsAnchor(idx, i) == GroupFirst(idx, i) = i
\* The anchors of the groups of two or more entries.
DupAnchors(idx) == {i \in DOMAIN idx : IsAnchor(idx, i) /\ GroupSize(idx, i) >= 2}

\* The step of the group anchored at i: max_delta at the end of the
\* series, otherwise the gap to the next entry over the group size, clamped.
StepOf(idx, i, md) ==
    IF GroupLast(idx, i) = Len(idx) THEN md
    ELSE Min((idx[GroupLast(idx, i) + 1] - idx[i]) \div GroupSize(idx, i), md)

StrictlyIncreasing(idx) == \A i \in 1..(Len(idx) - 1) : idx[i] < idx[i + 1]

Abs(x) == IF x < 0 THEN 0 - x ELSE x

\* ------------------------------------------------------------- claims

\* C1: for a sorted series and max_delta > 0 the timestamps returned by
\* handle_duplicate_index are strictly increasing.
C1_StrictlyIncreasing ==
    ValidResolve => StrictlyIncreasing(result.index)

\* C2: handle_duplicate_index keeps length and values, and every entry that
\* is outside a duplicate group or is the anchor of one keeps its timestamp.
C2_OnlyDuplicatesMove ==
    ValidResolve =>
        /\ Len(result.index) = Len(input.index)
        /\ result.values = input.values
        /\ \A i \in DOMAIN input.index :
               IsAnchor(input.index, i) => result.index[i] = input.index[i]

\* C3: every output timestamp of handle_duplicate_index is within max_delta
\* of the original timestamp of the same entry.
C3_WithinMaxDelta ==
    ValidResolve =>
        /\ Len(result.index) = Len(input.index)
        /\ \A i \in DOMAIN input.index :
               Abs(result.index[i] - input.index[i]) <= max_delta

\* C7: handle_duplicate_index leaves the series object of the caller as it
\* was: same timestamps, same values.
C7_ArgumentNotMutated ==
    ValidResolve => data = input

\* C8: the second entry of a duplicate group at d is moved to d + delta,
\* delta being max_delta at the end of the series and otherwise
\* min((c - d) / n, max_delta).
C8_SecondEntryAtDelta ==
    ValidResolve =>
        \A i \in DupAnchors(input.index) :
            result.index[i + 1] = input.index[i] + StepOf(input.index, i, max_delta)

StaysBelowNext(idx, i, md) ==
    idx[i] + Pow2(GroupSize(idx, i) - 2) * StepOf(idx, i, md) < idx[GroupLast(idx, i) + 1]

\* Every duplicate group but the last one stays below the entry after it.
EarlierGroupsStayBelow(idx, md) ==
    \A i \in DupAnchors(idx) :
        (\E j \in DupAnchors(idx) : j > i) => StaysBelowNext(idx, i, md)

PreconditionViolated ==
    \/ /\ op = "handle_duplicate_index"
       /\ (~IsSorted(input.index) \/ max_delta <= 0)
    \/ /\ op = "squash_into_window"
       /\ start > stop

\* C6 as stated: a call whose precondition is violated fails with an error.
C6_InvalidInputRaised ==
    (pc = "return" /\ PreconditionViolated) => raised

\* The positions of the entries before the window start.
BeforeStartAt(idx) == {i \in DOMAIN idx : idx[i] < start}
LastOf(S) == CHOOSE x \in S : \A y \in S : y <= x

\* C6, amended: no operation checks its precondition.  Such a call returns
\* normally: handle_duplicate_index a series with the length and the values
\* of its input, squash_into_window (start > end) the start-boundary entry
\* alone, or nothing when no entry precedes start.
C6_NoValidation ==
    (pc = "return" /\ PreconditionViolated) =>
        /\ ~raised
        /\ op = "handle_duplicate_index" =>
               /\ Len(result.index) = Len(input.index)
               /\ result.values = input.values
        /\ op = "squash_into_window" =>
               result = IF BeforeStartAt(input.index) = {} THEN EmptySeries
                        ELSE [index |-> <<start>>,
                              values |-> <<input.values[LastOf(BeforeStartAt(input.index))]>>]

\* An unsorted series with a duplicated timestamp went through
\* handle_duplicate_index with a negative max_delta and came back changed.
C6_Witness ==
    /\ Returned("handle_duplicate_index")
    /\ ~IsSorted(input.index)
    /\ max_delta < 0
    /\ result.index /= input.index
    /\ ~raised

\* In a sorted index the entries before start come first, those of
\* [start, end) next: how many there are of each.
NumBefore(idx) == Cardinality({i \in DOMAIN idx : idx[i] < start})
NumInside(idx) == Cardinality({i \in DOMAIN idx : start <= idx[i] /\ idx[i] < stop})

\* The start-boundary entry: the last entry before start, moved to start.
HeadPart(s) ==
    IF NumBefore(s.index) = 0 THEN EmptySeries
    ELSE [index |-> <<start>>, values |-> <<s.values[NumBefore(s.index)]>>]

\* The entries of [start, end), unchanged and in input order.
InsidePart(s) ==
    [index |-> SubSeq(s.index, NumBefore(s.index) + 1,
                      NumBefore(s.index) + NumInside(s.index)),
     values |-> SubSeq(s.values, NumBefore(s.index) + 1,
                       NumBefore(s.index) + NumInside(s.index))]

\* The end-boundary entry: the last entry of the part before it, at end.
TailPart(part) ==
    IF Len(part.index) = 0 THEN EmptySeries
    ELSE [index |-> <<stop>>, values |-> <<part.values[Len(part.values)]>>]

\* C4: squash_into_window returns the start-boundary entry (if an entry
\* precedes start), then the entries of [start, end) in input order, then
\* the end-boundary entry carrying the last value of what precedes it.
C4_SquashOutput ==
    ValidSquash =>
        LET part == [index |-> HeadPart(input).index \o InsidePart(input).index,
                     values |-> HeadPart(input).values \o InsidePart(input).values]
        IN  /\ result.index = part.index \o TailPart(part).index
            /\ result.values = part.values \o TailPart(part).values

\* A window with an entry before it and two entries inside it was squashed.
C4_Witness ==
    /\ ValidSquash
    /\ start < stop
    /\ NumBefore(input.index) >= 1
    /\ NumInside(input.index) >= 2
    /\ Len(result.index) = NumInside(input.index) + 2
    /\ result.values[1] /= result.values[Len(result.values)]

\* The positions of the entries at or before the window end.
UpToEndAt(idx) == {i \in DOMAIN idx : idx[i] <= stop}

\* C5: when an input entry lies at or before end, the output ends with an
\* entry at end whose value is that of the most recent input entry at or
\* before end, an entry exactly at end included.
C5_EndValueIsMostRecent ==
    (ValidSquash /\ UpToEndAt(input.index) /= {}) =>
        /\ Len(result.index) >= 1
        /\ result.index[Len(result.index)] = stop
        /\ result.values[Len(result.values)] = input.values[LastOf(UpToEndAt(input.index))]

\* C10: for a sorted series and start <= end squash_into_window does not
\* raise; its output is empty exactly when no input entry lies before end,
\* and otherwise has two or more entries, non-decreasing timestamps all
\* within [start, end], and a last entry at end.
C10_OutputShape ==
    ValidSquash =>
        /\ ~raised
        /\ Len(result.index) = Len(result.values)
        /\ (Len(result.index) = 0) <=> (\A i \in DOMAIN input.index : input.index[i] >= stop)
        /\ Len(result.index) > 0 =>
               /\ Len(result.index) >= 2
               /\ IsSorted(result.index)
               /\ \A i \in DOMAIN result.index :
                      start <= result.index[i] /\ result.index[i] <= stop
               /\ result.index[Len(result.index)] = stop

\* A window holding no entry, after an earlier entry, was squashed to its
\* two boundary entries.
C10_Witness ==
    /\ ValidSquash
    /\ start < stop
    /\ Len(input.index) >= 2
    /\ NumInside(input.index) = 0
    /\ result.index = <<start, stop>>
=============================================================================
